---- MODULE Spec2Model ----
(***************************************************************************)
(* Model of nps_parks_collector.py: main() validates the configuration,    *)
(* authenticates, fetches the parks from the NPS API, normalizes them      *)
(* into a pandas DataFrame and writes the frame to the first worksheet of  *)
(* a Google Sheet.                                                         *)
(*                                                                         *)
(* Values are modelled as strings: text values, one numeric token, the     *)
(* JSON null (Python None) and the float NaN pandas puts in its place.     *)
(***************************************************************************)
EXTENDS Integers, Sequences, FiniteSets, TLC

\* ------------------------------------------------------------------ bounds
MaxLen == 3          \* longest list of raw records
MaxRuns == 2         \* how many times main() is run against the same sink

\* ------------------------------------------------------- values and records
None == "None"                       \* Python None / JSON null
NaN == "NaN"                         \* float('nan')
NumVals == {"7"}                     \* numeric JSON values

DEFAULT == "N/A"
Keys == <<"fullName", "states", "description", "acres", "designation">>
Columns == <<"Full Name", "States", "Description", "Acres", "Designation">>

EmptyFields == [k \in {} |-> None]

Mapping(f) == [kind |-> "mapping", fields |-> f]
NotARecord == [kind |-> "string", fields |-> EmptyFields]

ParkX == Mapping([fullName |-> "A", states |-> "WY", description |-> "d",
                  acres |-> "7", designation |-> "NP"])
ParkY == Mapping([fullName |-> "B"])
ParkN == Mapping([fullName |-> "A", acres |-> None])
ParkE == Mapping(EmptyFields)

\* the raw records a list is built from
RecordPool == {ParkX, ParkY, ParkN, ParkE, NotARecord}

RecordLists == UNION {[1..n -> RecordPool] : n \in 0..MaxLen}

\* only a dict has a .get method
HasGet(park) == park.kind = "mapping"

\* dict.get(key, default): the default only when the key is missing
DictGet(park, key, default) ==
    IF key \in DOMAIN park.fields THEN park.fields[key] ELSE default

\* the dict literal of lines 114-120, as its values in insertion order
ParkInfo(park) == [j \in 1..Len(Keys) |-> DictGet(park, Keys[j], DEFAULT)]

\* the handler of lines 123-125 formats park.get('fullName', 'Unknown')
\* into the warning, which raises again when park has no .get
HandlerRaises(park) == ~HasGet(park)

\* --------------------------------------------------------------- DataFrame
ColumnValues(data, j) == {data[i][j] : i \in 1..Len(data)}

\* pandas infers float64 for a column of numbers and None, None -> NaN
IsNumericColumn(data, j) ==
    /\ ColumnValues(data, j) \subseteq (NumVals \cup {None})
    /\ ColumnValues(data, j) \cap NumVals # {}

FrameCell(data, i, j) ==
    IF data[i][j] = None /\ IsNumericColumn(data, j) THEN NaN ELSE data[i][j]

\* pd.DataFrame(list of dicts): the columns are the keys of the dicts
DataFrame(data) ==
    [columns |-> IF data = <<>> THEN <<>> ELSE Columns,
     rows |-> [i \in 1..Len(data) |->
                  [j \in 1..Len(Keys) |-> FrameCell(data, i, j)]]]

DfEmpty(frame) == Len(frame.rows) = 0 \/ Len(frame.columns) = 0

NoFrame == [columns |-> <<>>, rows |-> <<>>]

\* --------------------------------------------------------- configuration
API_KEY_PLACEHOLDER == "YOUR_API_KEY_HERE"
SHEET_URL_PLACEHOLDER == "YOUR_SHEET_URL_HERE"
ApiKeys == {API_KEY_PLACEHOLDER, "key"}
SheetUrls == {SHEET_URL_PLACEHOLDER, "https://docs.google.com/spreadsheets/d/1abc/edit"}

\* a check that forgets the sheet URL
ConfigIsPlaceholder_ApiKeyOnly(api_key, sheet_url) ==
    api_key = API_KEY_PLACEHOLDER

\* the two checks of lines 188 and 192
ConfigIsPlaceholder(api_key, sheet_url) ==
    api_key = API_KEY_PLACEHOLDER \/ sheet_url = SHEET_URL_PLACEHOLDER

\* ------------------------------------------------------------- Data Source
\* the JSON object the endpoint answers with; it may lack the 'data' key
Sources ==
    {[has_data |-> TRUE, data |-> l] : l \in RecordLists}
        \cup {[has_data |-> FALSE, data |-> <<>>]}

\* what one requests.get does: a transport exception or a status and a body
HttpStatuses == {200, 404}
Outcomes(body) ==
    {[kind |-> "exception", status_code |-> 0, json |-> body]}
        \cup {[kind |-> "http", status_code |-> s, json |-> body] : s \in HttpStatuses}
NoResponse == [kind |-> "none", status_code |-> 0, json |-> [has_data |-> FALSE, data |-> <<>>]]

\* a list or None, as fetch_parks_data returns it
NoneList == [none |-> TRUE, value |-> <<>>]
SomeList(l) == [none |-> FALSE, value |-> l]

\* a fetch that ignores the status code
FetchResult_AnyStatus(r) ==
    IF r.kind = "exception" THEN NoneList
    ELSE SomeList(IF r.json.has_data THEN r.json.data ELSE <<>>)

\* lines 75-92: data.get('data', []) on status 200, None otherwise
FetchResult(r) ==
    IF r.kind = "exception" THEN NoneList
    ELSE IF r.status_code = 200
           THEN SomeList(IF r.json.has_data THEN r.json.data ELSE <<>>)
           ELSE NoneList

\* a check that lets a failed fetch through
NoParksData_EmptyOnly(pd) == ~pd.none /\ Len(pd.value) = 0

\* line 206
NoParksData(pd) == pd.none \/ Len(pd.value) = 0

\* -------------------------------------------------------- Destination Sink
OldRow == <<"old", "old", "old", "old", "old", "old">>
SheetContents == {<<>>, <<OldRow>>, <<OldRow, OldRow>>}

Max(a, b) == IF a >= b THEN a ELSE b
RowOrEmpty(block, i) == IF i <= Len(block) THEN block[i] ELSE <<>>

\* a write that does not clear first
Clear_Skipped(contents) == contents

\* worksheet.clear()
Clear(contents) == <<>>

\* worksheet.update('A1', values): the block overwrites the cells it covers
Update(contents, values) ==
    [i \in 1..Max(Len(contents), Len(values)) |->
        LET old == RowOrEmpty(contents, i)
            new == RowOrEmpty(values, i)
        IN [j \in 1..Max(Len(old), Len(new)) |->
               IF j <= Len(new) THEN new[j] ELSE old[j]]]

\* line 165
DataToWrite(frame) == <<frame.columns>> \o frame.rows

\* an except clause that reports success
WriteResultOnException_True == TRUE

\* line 176: what the except clause of write_to_google_sheet returns
WriteResultOnException == FALSE

\* a main that goes on after a failed authentication
PcAfterAuth_GoesOn(ok) == "fetch"

\* lines 199-201: where main goes after authenticate_google
PcAfterAuth(ok) == IF ok THEN "fetch" ELSE "done"

Call(op, ok) == [op |-> op, ok |-> ok]

VARIABLES parks, idx, processed_data, df, ppc,
          API_KEY, SHEET_URL, source, pc, response, parks_data, success,
          outcome, sheet, has_sheet1, calls, runs, sheet0, last_written

pvars == <<parks, idx, processed_data, df, ppc>>
cfgvars == <<API_KEY, SHEET_URL, source>>
sinkvars == <<sheet, has_sheet1>>
mvars == <<API_KEY, SHEET_URL, source, pc, response, parks_data, success,
           outcome, sheet, has_sheet1, calls, runs, sheet0, last_written>>
vars == <<parks, idx, processed_data, df, ppc,
          API_KEY, SHEET_URL, source, pc, response, parks_data, success,
          outcome, sheet, has_sheet1, calls, runs, sheet0, last_written>>

\* ------------------------------------------------------ process_parks_data
\* one iteration of the for loop, lines 111-125
ProcessPark ==
    /\ ppc = "loop"
    /\ idx <= Len(parks)
    /\ LET park == parks[idx] IN
         IF HasGet(park)
           THEN /\ processed_data' = Append(processed_data, ParkInfo(park))
                /\ idx' = idx + 1
                /\ ppc' = "loop"
           ELSE IF HandlerRaises(park)
                  THEN /\ ppc' = "raised"
                       /\ UNCHANGED <<processed_data, idx>>
                  ELSE /\ idx' = idx + 1
                       /\ ppc' = "loop"
                       /\ UNCHANGED processed_data
    /\ UNCHANGED <<parks, df>>
    /\ UNCHANGED mvars

\* lines 127-131
ProcessReturn ==
    /\ ppc = "loop"
    /\ idx > Len(parks)
    /\ df' = DataFrame(processed_data)
    /\ ppc' = "returned"
    /\ UNCHANGED <<parks, idx, processed_data>>
    /\ UNCHANGED mvars

\* -------------------------------------------------------------------- main
\* lines 187-194
MainValidate ==
    /\ pc = "main"
    /\ IF ConfigIsPlaceholder(API_KEY, SHEET_URL)
         THEN pc' = "done" /\ outcome' = "config_error"
         ELSE pc' = "authenticate" /\ UNCHANGED outcome
    /\ UNCHANGED <<pvars, cfgvars, sinkvars, response, parks_data, success,
                   calls, runs, sheet0, last_written>>

\* lines 196-201 and authenticate_google, lines 44-51
AuthenticateGoogle ==
    /\ pc = "authenticate"
    /\ \E ok \in BOOLEAN :
         /\ calls' = Append(calls, Call("authenticate", ok))
         /\ pc' = PcAfterAuth(ok)
         /\ outcome' = IF ok THEN outcome ELSE "auth_failed"
    /\ UNCHANGED <<pvars, cfgvars, sinkvars, response, parks_data, success,
                   runs, sheet0, last_written>>

\* fetch_parks_data, lines 56-92: one requests.get
FetchParksData ==
    /\ pc = "fetch"
    /\ \E r \in Outcomes(source) :
         /\ response' = r
         /\ calls' = Append(calls, Call("http_get", r.kind = "http" /\ r.status_code = 200))
         /\ parks_data' = FetchResult(r)
    /\ pc' = "fetched"
    /\ UNCHANGED <<pvars, cfgvars, sinkvars, success, outcome, runs, sheet0,
                   last_written>>

\* lines 206-211: the fatal check, then the call of process_parks_data
MainCheckFetched ==
    /\ pc = "fetched"
    /\ IF NoParksData(parks_data)
         THEN /\ pc' = "done"
              /\ outcome' = "no_data"
              /\ UNCHANGED <<pvars, calls>>
         ELSE /\ pc' = "process"
              /\ parks' = parks_data.value
              /\ idx' = 1
              /\ processed_data' = <<>>
              /\ ppc' = "loop"
              /\ calls' = Append(calls, Call("normalize", TRUE))
              /\ UNCHANGED <<df, outcome>>
    /\ UNCHANGED <<cfgvars, sinkvars, response, parks_data, success, runs,
                   sheet0, last_written>>

\* lines 211-215: an exception of process_parks_data leaves main as well
MainAfterProcess ==
    /\ pc = "process"
    /\ ppc \in {"returned", "raised"}
    /\ IF ppc = "raised"
         THEN pc' = "crashed" /\ outcome' = "exception"
         ELSE IF DfEmpty(df)
                THEN pc' = "done" /\ outcome' = "no_rows"
                ELSE pc' = "write_open" /\ UNCHANGED outcome
    /\ ppc' = "idle"
    /\ UNCHANGED <<parks, idx, processed_data, df, cfgvars, sinkvars, response,
                   parks_data, success, calls, runs, sheet0, last_written>>

\* --------------------------------------------------- write_to_google_sheet
\* line 152, and the except clause of lines 174-176 when it raises
WriteOpen ==
    /\ pc = "write_open"
    /\ \E ok \in BOOLEAN :
         /\ calls' = Append(calls, Call("open_by_url", ok))
         /\ IF ok THEN pc' = "write_sheet1" /\ UNCHANGED success
                  ELSE pc' = "write_returned" /\ success' = WriteResultOnException
    /\ UNCHANGED <<pvars, cfgvars, sinkvars, response, parks_data, outcome,
                   runs, sheet0, last_written>>

\* lines 155-158: the first worksheet, created when there is none
WriteSheet1 ==
    /\ pc = "write_sheet1"
    /\ IF has_sheet1
         THEN /\ calls' = Append(calls, Call("sheet1", TRUE))
              /\ pc' = "write_clear"
              /\ UNCHANGED <<sinkvars, success>>
         ELSE \E ok \in BOOLEAN :
              /\ calls' = calls \o <<Call("sheet1", FALSE), Call("add_worksheet", ok)>>
              /\ IF ok THEN /\ has_sheet1' = TRUE
                            /\ sheet' = <<>>
                            /\ pc' = "write_clear"
                            /\ UNCHANGED success
                       ELSE /\ pc' = "write_returned"
                            /\ success' = WriteResultOnException
                            /\ UNCHANGED sinkvars
    /\ UNCHANGED <<pvars, cfgvars, response, parks_data, outcome, runs, sheet0,
                   last_written>>

\* line 161
WriteClear ==
    /\ pc = "write_clear"
    /\ \E ok \in BOOLEAN :
         /\ calls' = Append(calls, Call("clear", ok))
         /\ IF ok THEN /\ sheet' = Clear(sheet)
                       /\ pc' = "write_update"
                       /\ UNCHANGED success
                  ELSE /\ pc' = "write_returned"
                       /\ success' = WriteResultOnException
                       /\ UNCHANGED sheet
    /\ UNCHANGED <<pvars, cfgvars, has_sheet1, response, parks_data, outcome,
                   runs, sheet0, last_written>>

\* lines 165-172
WriteUpdate ==
    /\ pc = "write_update"
    /\ \E ok \in BOOLEAN :
         /\ calls' = Append(calls, Call("update", ok))
         /\ IF ok THEN /\ sheet' = Update(sheet, DataToWrite(df))
                       /\ success' = TRUE
                  ELSE /\ success' = WriteResultOnException
                       /\ UNCHANGED sheet
    /\ pc' = "write_returned"
    /\ UNCHANGED <<pvars, cfgvars, has_sheet1, response, parks_data, outcome,
                   runs, sheet0, last_written>>

\* lines 224-232
MainFinal ==
    /\ pc = "write_returned"
    /\ outcome' = IF success THEN "SUCCESS" ELSE "FAILED"
    /\ pc' = "done"
    /\ UNCHANGED <<pvars, cfgvars, sinkvars, response, parks_data, success,
                   calls, runs, sheet0, last_written>>

\* the operator runs the script again (lines 237-238)
RunAgain ==
    /\ pc \in {"done", "crashed"}
    /\ runs < MaxRuns
    /\ runs' = runs + 1
    /\ pc' = "main"
    /\ outcome' = ""
    /\ calls' = <<>>
    /\ response' = NoResponse
    /\ parks_data' = NoneList
    /\ success' = FALSE
    /\ sheet0' = <<has_sheet1, sheet>>
    /\ last_written' = IF outcome = "SUCCESS" THEN <<sheet>> ELSE last_written
    /\ parks' = <<>>
    /\ idx' = 1
    /\ processed_data' = <<>>
    /\ df' = NoFrame
    /\ ppc' = "idle"
    /\ UNCHANGED <<cfgvars, sinkvars>>

Init ==
    /\ API_KEY \in ApiKeys
    /\ SHEET_URL \in SheetUrls
    /\ source \in Sources
    /\ has_sheet1 \in BOOLEAN
    /\ sheet \in (IF has_sheet1 THEN SheetContents ELSE {<<>>})
    /\ sheet0 = <<has_sheet1, sheet>>
    /\ pc = "main"
    /\ response = NoResponse
    /\ parks_data = NoneList
    /\ success = FALSE
    /\ outcome = ""
    /\ calls = <<>>
    /\ runs = 1
    /\ last_written = <<>>
    /\ parks = <<>>
    /\ idx = 1
    /\ processed_data = <<>>
    /\ df = NoFrame
    /\ ppc = "idle"

Next ==
    \/ MainValidate
    \/ AuthenticateGoogle
    \/ FetchParksData
    \/ MainCheckFetched
    \/ ProcessPark
    \/ ProcessReturn
    \/ MainAfterProcess
    \/ WriteOpen
    \/ WriteSheet1
    \/ WriteClear
    \/ WriteUpdate
    \/ MainFinal
    \/ RunAgain

Spec == Init /\ [][Next]_vars

\* process_parks_data on its own, applied to every bounded list of records
InitNormalize ==
    /\ parks \in RecordLists
    /\ idx = 1
    /\ processed_data = <<>>
    /\ df = NoFrame
    /\ ppc = "loop"
    /\ API_KEY = "key"
    /\ SHEET_URL = SHEET_URL_PLACEHOLDER
    /\ source = [has_data |-> FALSE, data |-> <<>>]
    /\ has_sheet1 = FALSE
    /\ sheet = <<>>
    /\ sheet0 = <<FALSE, <<>>>>
    /\ pc = "standalone"
    /\ response = NoResponse
    /\ parks_data = NoneList
    /\ success = FALSE
    /\ outcome = ""
    /\ calls = <<>>
    /\ runs = 1
    /\ last_written = <<>>

NextNormalize == ProcessPark \/ ProcessReturn

SpecNormalize == InitNormalize /\ [][NextNormalize]_vars

\* ================================================================ properties
Has(op) == \E i \in 1..Len(calls) : calls[i].op = op
Completed(op) == \E i \in 1..Len(calls) : calls[i].op = op /\ calls[i].ok
Failed(op) == \E i \in 1..Len(calls) : calls[i].op = op /\ ~calls[i].ok
Count(op) == Cardinality({i \in 1..Len(calls) : calls[i].op = op})

SinkOps == {"open_by_url", "sheet1", "add_worksheet", "clear", "update"}
WriteFailed ==
    Failed("open_by_url") \/ Failed("add_worksheet") \/ Failed("clear") \/ Failed("update")

ValidRecords(l) == SelectSeq(l, HasGet)
RowsOf(l) == [i \in 1..Len(l) |-> ParkInfo(l[i])]

\* C1: a record that is not a mapping is skipped: no exception leaves
\* process_parks_data, and the loop goes on with exactly the rows of the
\* valid records seen so far.
C1_BadRecordSkipped ==
    /\ ppc # "raised"
    /\ ppc = "loop" =>
         processed_data = RowsOf(ValidRecords(SubSeq(parks, 1, idx - 1)))

\* C2: for every input list, the empty one included, the returned table has
\* the five columns in order and every row has five values.
C2_FullHeader ==
    ppc = "returned" =>
        /\ df.columns = Columns
        /\ \A i \in 1..Len(df.rows) : Len(df.rows[i]) = Len(Columns)

\* C3: every cell of a returned row is the record's value when the field is
\* present and not null, and "N/A" when the key is missing or the value null.
C3_ValueOrDefault ==
    ppc = "returned" /\ Len(df.rows) = Len(parks) =>
        \A i \in 1..Len(parks) : \A j \in 1..Len(Keys) :
            df.rows[i][j] =
                IF Keys[j] \in DOMAIN parks[i].fields /\ parks[i].fields[Keys[j]] # None
                  THEN parks[i].fields[Keys[j]]
                  ELSE DEFAULT

\* C4: for every input list the call ends with a result whose rows are those
\* of the records that normalized, one each, in input order.
C4_RowsOfValidRecordsInOrder ==
    ppc \in {"returned", "raised"} =>
        /\ ppc = "returned"
        /\ df.rows = DataFrame(RowsOf(ValidRecords(parks))).rows
        /\ Len(df.rows) <= Len(parks)

\* C5: after a successful write the worksheet holds exactly the header row
\* followed by the table's rows, whatever it held before, and it equals what
\* an earlier successful run against the same Data Source left there.
C5_SheetIsExactlyTable ==
    outcome = "SUCCESS" =>
        /\ sheet = <<df.columns>> \o df.rows
        /\ last_written # <<>> => sheet = last_written[1]

C5_Witness ==
    /\ outcome = "SUCCESS"
    /\ runs >= 2
    /\ last_written # <<>>
    /\ Len(sheet) >= 2

\* C6: a failed sink operation makes write_to_google_sheet return failure
\* without raising and main report FAILED; SUCCESS needs both the clear and
\* the update completed; after a failure the worksheet holds its previous
\* contents or nothing, and no sink operation is tried twice.
C6_WriteFailureReported ==
    /\ WriteFailed => pc \in {"write_returned", "done"} /\ ~success
    /\ WriteFailed /\ pc = "done" => outcome = "FAILED"
    /\ outcome = "SUCCESS" => Completed("clear") /\ Completed("update")
    /\ WriteFailed => sheet = sheet0[2] \/ sheet = <<>>
    /\ \A op \in SinkOps : Count(op) <= 1

C6_Witness ==
    /\ pc = "done"
    /\ outcome = "FAILED"
    /\ Completed("clear")
    /\ Failed("update")
    /\ sheet = <<>>
    /\ sheet0[2] # <<>>

Rank(op) ==
    CASE op = "authenticate" -> 1
      [] op = "http_get" -> 2
      [] op = "normalize" -> 3
      [] op = "open_by_url" -> 4
      [] op = "sheet1" -> 5
      [] op = "add_worksheet" -> 6
      [] op = "clear" -> 7
      [] op = "update" -> 8

\* C7: in a run the steps are called at most once each, in the order
\* authenticate, fetch, normalize, write; a step starts only after the
\* previous one succeeded, and after a fatal error no step follows.
C7_StepsInOrder ==
    /\ \A i \in 1..(Len(calls) - 1) : Rank(calls[i].op) < Rank(calls[i + 1].op)
    /\ \A i \in 1..(Len(calls) - 1) : ~calls[i].ok => calls[i].op = "sheet1"
    /\ Has("http_get") => Completed("authenticate")
    /\ Has("normalize") =>
         Completed("http_get") /\ ~parks_data.none /\ Len(parks_data.value) > 0
    /\ (\E op \in SinkOps : Has(op)) => Has("normalize") /\ Len(df.rows) > 0
    /\ outcome \in {"auth_failed", "no_data", "FAILED"} =>
         pc = "done" /\ (~calls[Len(calls)].ok \/ Len(parks_data.value) = 0)

C7_Witness ==
    /\ pc = "done"
    /\ outcome = "auth_failed"
    /\ calls = <<Call("authenticate", FALSE)>>

\* C8: with API_KEY or SHEET_URL still at its placeholder, main returns
\* early and calls neither the Identity Provider, the Data Source nor the
\* Destination Sink.
C8_PlaceholderNoCalls ==
    (API_KEY = API_KEY_PLACEHOLDER \/ SHEET_URL = SHEET_URL_PLACEHOLDER) =>
        /\ calls = <<>>
        /\ pc \in {"main", "done"}
        /\ pc = "done" => outcome = "config_error"
        /\ <<has_sheet1, sheet>> = sheet0

C8_Witness ==
    /\ API_KEY # API_KEY_PLACEHOLDER
    /\ SHEET_URL = SHEET_URL_PLACEHOLDER
    /\ pc = "done"
    /\ outcome = "config_error"
    /\ sheet # <<>>

C10_SinkUntouchedBeforeWrite ==
    /\ (Has("clear") \/ Has("update")) =>
         /\ Completed("authenticate")
         /\ Completed("http_get")
         /\ Has("normalize")
         /\ Len(df.rows) > 0
         /\ outcome \in {"", "SUCCESS", "FAILED"}
    /\ outcome \in {"config_error", "auth_failed", "no_data", "no_rows", "exception"} =>
         /\ \A op \in SinkOps : ~Has(op)
         /\ <<has_sheet1, sheet>> = sheet0

C10_Witness ==
    /\ pc = "done"
    /\ outcome = "no_data"
    /\ ~parks_data.none
    /\ sheet = <<OldRow, OldRow>>
====
